---------------------------- MODULE Spec2Model ----------------------------
(***************************************************************************)
(* A model of broh5, the browser-based HDF viewer.                         *)
(*                                                                         *)
(*   Spec        the viewer of broh5_mono/main.py: the timer callback      *)
(*               show_data, the tree cards, the file dialog's result and   *)
(*               the selectors, over datasets of every display mode;       *)
(*   Spec3d      the same viewer over 3D datasets and a 2D image, with the *)
(*               slice and contrast sliders;                               *)
(*   SpecKinds   the same viewer over every kind of entry of a file;       *)
(*   SpecExport  the same viewer with the two export buttons and the save  *)
(*               dialogs' results;                                         *)
(*   SpecData    get_hdf_data of broh5/lib/utilities.py applied to one     *)
(*               (file, path) input at a time;                             *)
(*   SpecPicker  the FilePicker and FileSaver dialogs of                   *)
(*               broh5_mono/util/components.py over a small file system.   *)
(*                                                                         *)
(* An optional value (Python's None) is a sequence of length 0 or 1.       *)
(* A string the code takes apart (a file name, an extension) is a sequence *)
(* of one-character strings; a string it only compares is a TLA+ string.   *)
(***************************************************************************)
EXTENDS Integers, Sequences, FiniteSets, TLC

VARIABLES ui, dialog, trees, op, events, probe, picker

vars == <<ui, dialog, trees, op, events, probe, picker>>

None == <<>>

Some(x) == <<x>>

Min(a, b) == IF a < b THEN a ELSE b

RECURSIVE Product(_)
Product(s) == IF s = <<>> THEN 1 ELSE Head(s) * Product(Tail(s))

\* numpy.clip on a scalar
clip(x, lo, hi) == IF x < lo THEN lo ELSE IF x > hi THEN hi ELSE x

(***************************************************************************)
(* Global parameters of the GUI (main.py 14-23).                           *)
(***************************************************************************)
MARKER_LIST == <<",", ".", "o", "x">>

CMAP_LIST == <<"gray", "inferno", "afmhot", "viridis", "magma">>

AXIS_LIST == <<0, 1, 2>>

DISPLAY_TYPE == <<"plot", "table">>

INPUT_EXT == << <<"h", "d", "f">>, <<"n", "x", "s">>, <<"h", "5">> >>

\* the threshold above which slicing / tabulating is refused or warned about
LargeDim == 1000

\* the sliders as constructed: main 0..100, min 0..254, max 1..255
SliderMaxInit == 100

MinSliderMax == 254

MaxSliderMax == 255

(***************************************************************************)
(* Bounds of the model.                                                    *)
(***************************************************************************)
\* the user drags the slice slider to 0..MaxSlide or to its right end
MaxSlide == 1

\* how many of CMAP_LIST's and MARKER_LIST's entries the user picks among
MaxChoice == 2

\* how many tree cards may be open at once
MaxCards == 1

\* how many events (clicks, drags, dialog results) the page handles between
\* two runs of the timer's callback
MaxEvents == 1

(***************************************************************************)
(* HDF files.  An entry is a group or a dataset; a dataset has an element  *)
(* type (numpy's dtype.kind, with "vlen" for h5py's variable-length        *)
(* strings and "c" for a kind the classifier does not know), a shape and   *)
(* an identity standing for its content.                                   *)
(***************************************************************************)
Group == [kind |-> "group", shape |-> <<>>]

Dataset(kind, shape) == [kind |-> kind, shape |-> shape]

\* the tree of every HDF file of the model, by node label (utilities.py
\* 28-36: the root is "/", a child of the root has no leading slash)
Entries ==
  [k \in {"/", "g", "g/a3", "g/b3", "big3", "v1", "m33", "xy23", "bigm",
          "t4", "n0", "n1", "s0", "sa2", "sa3", "sa5", "s22", "vs2",
          "b0", "ba2", "c0"} |->
     CASE k = "/"    -> Group
       [] k = "g"    -> Group
       [] k = "g/a3" -> Dataset("i", <<3, 2, 2>>)
       [] k = "g/b3" -> Dataset("f", <<2, 2, 2>>)
       [] k = "big3" -> Dataset("u", <<LargeDim + 1, LargeDim + 1, 2>>)
       [] k = "v1"   -> Dataset("f", <<3>>)
       [] k = "m33"  -> Dataset("i", <<3, 3>>)
       [] k = "xy23" -> Dataset("f", <<2, 3>>)
       [] k = "bigm" -> Dataset("f", <<LargeDim + 1, LargeDim + 1>>)
       [] k = "t4"   -> Dataset("i", <<2, 2, 2, 2>>)
       [] k = "n0"   -> Dataset("i", <<>>)
       [] k = "n1"   -> Dataset("f", <<1>>)
       [] k = "s0"   -> Dataset("S", <<>>)
       [] k = "sa2"  -> Dataset("S", <<2>>)
       [] k = "sa3"  -> Dataset("S", <<3>>)
       [] k = "sa5"  -> Dataset("S", <<5>>)
       [] k = "s22"  -> Dataset("S", <<2, 2>>)
       [] k = "vs2"  -> Dataset("vlen", <<2>>)
       [] k = "b0"   -> Dataset("b", <<>>)
       [] k = "ba2"  -> Dataset("b", <<2>>)
       [] k = "c0"   -> Dataset("c", <<>>)]

Keys == DOMAIN Entries

\* the files on disk: an HDF file of groups and datasets, and the files
\* hdf_tree_to_dict fails on: one that is not HDF, and an HDF file that holds
\* a named datatype (an object that is neither a group nor a dataset)
HdfFiles == {"f1.h5"}

OtherFiles == {"bad.h5", "odd.h5"}

size(item) == Product(item.shape)

(***************************************************************************)
(* get_hdf_data (utilities.py 53-95).  The result is the returned pair and *)
(* whether the call raised instead of returning.  A value is tagged with   *)
(* its Python type: "None", "str", "num" (item[()]), "int" (int(item[()])),*)
(* "shape" (the tuple item.shape) or "list" (a list, one entry per element *)
(* along the first axis).                                                  *)
(***************************************************************************)
Value(vk, seq) == [vk |-> vk, seq |-> seq]

NoValue == Value("None", <<>>)

Returned(data_type, value) == [exc |-> "", data_type |-> data_type, value |-> value]

Raised(msg) == [exc |-> msg, data_type |-> "", value |-> NoValue]

\* iterating an array of rank >= 2 yields arrays, which have no decode()
DecodeFails(item) == Len(item.shape) >= 2 /\ item.shape[1] >= 1

\* one entry per element along the first axis
FirstAxis(item) == [i \in 1..item.shape[1] |-> 0]

get_hdf_data(present, item) ==
  IF ~present THEN Returned("not path", NoValue)
  ELSE IF item.kind = "group" THEN Returned("group", NoValue)
  ELSE IF item.kind = "S" THEN
         IF size(item) = 1 THEN Returned("string", Value("str", <<>>))
         ELSE IF DecodeFails(item) THEN Raised("AttributeError")
         ELSE Returned("array", Value("list", FirstAxis(item)))
  ELSE IF item.kind = "U" THEN
         IF size(item) = 1 THEN Returned("string", Value("str", <<>>))
         ELSE Returned("array", Value("list", FirstAxis(item)))
  ELSE IF item.kind = "vlen" THEN
         IF item.shape = <<>> THEN Returned("string", Value("str", <<>>))
         ELSE IF DecodeFails(item) THEN Raised("AttributeError")
         ELSE Returned("string", Value("str", <<>>))
  ELSE IF item.kind \in {"i", "f", "u"} THEN
         IF item.shape = <<>> \/ size(item) = 1
         THEN Returned("number", Value("num", <<>>))
         ELSE Returned("array", Value("shape", item.shape))
  ELSE IF item.kind = "b" THEN
         IF size(item) = 1 THEN Returned("boolean", Value("int", <<>>))
         ELSE Raised("TypeError")
  ELSE Returned("unknown", NoValue)


(***************************************************************************)
(* The viewer's state: the widgets main() builds (main.py 344-451) and the *)
(* module's globals (main.py 292-298), in one record.  After construction  *)
(* every widget is enabled and visible, the texts are empty and the        *)
(* selectors and sliders are at the values given to their constructors.    *)
(***************************************************************************)
Text(k, v) == [k |-> k, v |-> v]

EmptyText == Text("", <<>>)

\* str(value) of a value returned by get_hdf_data
str(value) == Text("str:" \o value.vk, value.seq)

\* the cleared figure, plt.clf()
Cleared == [kind |-> "clf", src |-> None, vmin |-> 0, vmax |-> 0, cmap |-> ""]

\* plt.imshow of image1 (main.py 161-178): "copy" renders the slice as it is,
\* "clip" renders it rescaled to 0..255 and clipped into [vmin, vmax]
Shown3d(how, image, vmin, vmax, cmap) ==
  [kind |-> "imshow3d:" \o how, src |-> image, vmin |-> vmin, vmax |-> vmax, cmap |-> cmap]

\* plt.imshow of a whole 2D dataset (main.py 222-227)
Shown2d(data, cmap) ==
  [kind |-> "imshow2d", src |-> Some(data), vmin |-> 0, vmax |-> 0, cmap |-> cmap]

\* plt.plot of x against y (main.py 213-220)
Plotted(how, data, marker) ==
  [kind |-> "plot:" \o how, src |-> Some(data), vmin |-> 0, vmax |-> 0, cmap |-> marker]

\* data_obj[...]: the content of a dataset, or of one slice of it
Data(file, key) == [file |-> file, key |-> key, axis |-> -1, pos |-> -1]

Slice(file, key, axis, pos) == [file |-> file, key |-> key, axis |-> axis, pos |-> pos]

InitUi ==
  [file_path_display |-> "", hdf_key_display |-> "", hdf_value_display |-> EmptyText,
   axis_list |-> AXIS_LIST[1], axis_list_enabled |-> TRUE,
   cmap_list |-> CMAP_LIST[1], cmap_list_enabled |-> TRUE,
   display_type |-> DISPLAY_TYPE[1], display_type_enabled |-> TRUE,
   marker_list |-> MARKER_LIST[1], marker_list_enabled |-> TRUE,
   main_slider |-> 0, main_slider_max |-> SliderMaxInit, main_slider_enabled |-> TRUE,
   min_slider |-> 0, min_slider_enabled |-> TRUE,
   max_slider |-> MaxSliderMax, max_slider_enabled |-> TRUE,
   save_image_button |-> TRUE, save_data_button |-> TRUE,
   main_table_visible |-> TRUE, main_plot_visible |-> TRUE,
   main_table_rows |-> None, figure |-> Cleared,
   current_state |-> None, rows |-> None, image |-> None,
   current_slice |-> None, data_1d_2d |-> None,
   notify |-> "", exc |-> ""]

\* main.py 45-52
disable_sliders(st) ==
  [st EXCEPT !.main_slider = 0, !.main_slider_enabled = FALSE,
             !.min_slider = 0, !.min_slider_enabled = FALSE,
             !.max_slider = MaxSliderMax, !.max_slider_enabled = FALSE]

\* a mutant: the display-type selector is not disabled
enable_ui_elements_3d_data_M(st) ==
  [st EXCEPT !.main_slider_enabled = TRUE, !.max_slider_enabled = TRUE,
             !.min_slider_enabled = TRUE, !.main_plot_visible = TRUE,
             !.axis_list_enabled = TRUE, !.cmap_list_enabled = TRUE,
             !.save_image_button = TRUE,
             !.main_table_visible = FALSE,
             !.marker_list_enabled = FALSE, !.save_data_button = FALSE,
             !.data_1d_2d = None]

\* main.py 54-74
enable_ui_elements_3d_data(st) ==
  [st EXCEPT !.main_slider_enabled = TRUE, !.max_slider_enabled = TRUE,
             !.min_slider_enabled = TRUE, !.main_plot_visible = TRUE,
             !.axis_list_enabled = TRUE, !.cmap_list_enabled = TRUE,
             !.save_image_button = TRUE,
             !.main_table_visible = FALSE, !.display_type_enabled = FALSE,
             !.marker_list_enabled = FALSE, !.save_data_button = FALSE,
             !.data_1d_2d = None]

\* main.py 76-94
enable_ui_elements_1d_2d_data(st) ==
  [disable_sliders([st EXCEPT !.image = None])
     EXCEPT !.axis_list = AXIS_LIST[1], !.cmap_list = CMAP_LIST[1],
            !.axis_list_enabled = FALSE, !.cmap_list_enabled = FALSE,
            !.save_image_button = FALSE,
            !.display_type_enabled = TRUE, !.marker_list_enabled = TRUE,
            !.save_data_button = TRUE]

\* main.py 98-101
clear_display(st, keep_display) ==
  IF keep_display THEN st
  ELSE [st EXCEPT !.hdf_key_display = "", !.file_path_display = "",
                  !.hdf_value_display = EmptyText]

\* main.py 96-117
reset(st, keep_display) ==
  [disable_sliders(
     [clear_display(st, keep_display)
        EXCEPT !.axis_list = AXIS_LIST[1], !.cmap_list = CMAP_LIST[1],
               !.display_type = DISPLAY_TYPE[1], !.marker_list = MARKER_LIST[1],
               !.axis_list_enabled = FALSE, !.cmap_list_enabled = FALSE,
               !.display_type_enabled = FALSE, !.marker_list_enabled = FALSE])
     EXCEPT !.rows = None, !.image = None, !.data_1d_2d = None,
            !.main_table_visible = FALSE, !.main_plot_visible = TRUE,
            !.save_image_button = FALSE, !.save_data_button = FALSE]

\* main.py 119-122
reset_min_max(st) == [st EXCEPT !.min_slider = 0, !.max_slider = MaxSliderMax]

\* an exception leaves the function it is raised in
raise(st, msg) == [st EXCEPT !.exc = msg]

(***************************************************************************)
(* display_3d_data (main.py 124-178).  data_obj is the dataset `key` of    *)
(* `file`, of shape `shape`.                                               *)
(***************************************************************************)
\* main.py 129-134
slider_max_for(axis, shape) ==
  IF axis = 2 THEN shape[3] - 1
  ELSE IF axis = 1 THEN shape[2] - 1
  ELSE shape[1] - 1

\* main.py 135-141: the slider's maximum follows the axis, its value is clamped
fit_slider(st, max_val) ==
  [st EXCEPT !.main_slider_max = max_val,
             !.main_slider = IF @ > max_val THEN max_val ELSE @]

\* main.py 143-144
slice_id(st) == <<st.main_slider, st.axis_list, st.file_path_display>>

\* main.py 145
slice_is_stale(st) == Some(slice_id(st)) # st.current_slice \/ st.image = None

\* main.py 146-160: take the slice; d_pos is the clamped slider position
take_slice(st, file, key, shape, d_pos) ==
  LET s == [st EXCEPT !.current_slice = Some(slice_id(st))]
  IN  IF s.axis_list = 2 THEN
        IF shape[1] > LargeDim /\ shape[2] > LargeDim
        THEN [s EXCEPT !.notify = "Slicing along axis 2 is very time consuming!",
                       !.axis_list = 0, !.main_slider = 0,
                       !.image = Some(Slice(file, key, 0, 0))]
        ELSE [s EXCEPT !.image = Some(Slice(file, key, 2, d_pos))]
      ELSE IF s.axis_list = 1 THEN
        [s EXCEPT !.notify = IF shape[1] > LargeDim /\ shape[3] > LargeDim
                             THEN "Slicing along axis 1 can take time !" ELSE @,
                  !.image = Some(Slice(file, key, 1, d_pos))]
      ELSE [s EXCEPT !.image = Some(Slice(file, key, 0, d_pos))]

\* main.py 161-178: the contrast window and the drawing
draw_slice(st) ==
  LET min_val == st.min_slider
      max_val == st.max_slider
  IN  IF min_val > 0 \/ max_val < MaxSliderMax THEN
        LET lo == IF min_val >= max_val THEN clip(max_val - 1, 0, MinSliderMax)
                  ELSE min_val
        IN  [st EXCEPT !.min_slider = lo,
                       !.figure = Shown3d("clip", st.image, lo, max_val, st.cmap_list)]
      ELSE [st EXCEPT !.figure = Shown3d("copy", st.image, min_val, max_val,
                                         st.cmap_list)]

display_3d_data(st0, file, key, shape) ==
  LET st1 == enable_ui_elements_3d_data(st0)
  IN  IF Len(shape) # 3 THEN raise(st1, "ValueError")
      ELSE LET max_val == slider_max_for(st1.axis_list, shape)
               st2 == fit_slider(st1, max_val)
               st3 == IF slice_is_stale(st2)
                      THEN take_slice(st2, file, key, shape, st2.main_slider)
                      ELSE st2
           IN  draw_slice(st3)

(***************************************************************************)
(* display_1d_2d_data (main.py 180-227).                                   *)
(***************************************************************************)
\* format_table_from_array (utilities.py 98-116): None for a table too large,
\* and else the list of the table's rows (the rows themselves are left out)
format_table_from_array(shape) ==
  LET height == shape[1]
      width == IF Len(shape) = 1 THEN 1 ELSE shape[2]
  IN  IF height > LargeDim /\ width > LargeDim THEN None ELSE Some(<<>>)

\* main.py 186-194
show_table(st0, file, key, shape) ==
  LET rows == format_table_from_array(shape)
      st1 == [st0 EXCEPT !.main_plot_visible = FALSE, !.main_table_visible = TRUE,
                         !.rows = rows]
  IN  IF st1.main_table_rows = None THEN [st1 EXCEPT !.main_table_rows = rows]
      ELSE IF rows = None THEN raise(st1, "TypeError")
      ELSE [st1 EXCEPT !.main_table_rows = rows]

\* plot_kind with the test of the width before the test of the height
plot_kind_M(shape) ==
  IF Len(shape) = 2 THEN
    IF shape[2] = 2 THEN "columns"
    ELSE IF shape[1] = 2 THEN "rows"
    ELSE "image"
  ELSE "index"

\* main.py 198-211: how a plot-mode array is drawn
plot_kind(shape) ==
  IF Len(shape) = 2 THEN
    IF shape[1] = 2 THEN "rows"
    ELSE IF shape[2] = 2 THEN "columns"
    ELSE "image"
  ELSE "index"

\* main.py 196-227
show_plot(st0, file, key, shape) ==
  LET st1 == [st0 EXCEPT !.main_plot_visible = TRUE, !.main_table_visible = FALSE]
      how == plot_kind(shape)
  IN  IF how = "image"
      THEN [st1 EXCEPT !.figure = Shown2d(Data(file, key), st1.cmap_list)]
      ELSE [st1 EXCEPT !.figure = Plotted(how, Data(file, key), st1.marker_list)]

display_1d_2d_data(st0, file, key, shape, disp_type) ==
  LET st1 == enable_ui_elements_1d_2d_data(st0)
      st2 == [st1 EXCEPT !.data_1d_2d = Some(Data(file, key))]
  IN  IF disp_type = "table" THEN show_table(st2, file, key, shape)
      ELSE show_plot(st2, file, key, shape)

(***************************************************************************)
(* show_data (main.py 229-281), the timer's callback.                      *)
(***************************************************************************)
\* main.py 235-238
ui_state(st) ==
  [file_path |-> st.file_path_display, hdf_key |-> st.hdf_key_display,
   main_slider |-> st.main_slider, hdf_value |-> st.hdf_value_display,
   axis |-> st.axis_list, cmap |-> st.cmap_list,
   display_type |-> st.display_type, marker |-> st.marker_list,
   min_slider |-> st.min_slider, max_slider |-> st.max_slider]

\* main.py 246-249, 262-265, 269-272, 278-281
clear_plot_and_reset(st) == reset([st EXCEPT !.figure = Cleared], TRUE)

\* len(value) (main.py 254)
len(value) == Len(value.seq)

\* main.py 250-266
show_array(st0, file, key, item, value) ==
  LET st1 == [st0 EXCEPT !.hdf_value_display = Text("Array shape: ", value.seq)]
      dim == len(value)
  IN  IF dim = 3 THEN display_3d_data(st1, file, key, item.shape)
      ELSE IF dim < 3
      THEN display_1d_2d_data(st1, file, key, item.shape, st1.display_type)
      ELSE clear_plot_and_reset([st1 EXCEPT !.notify = "Can't display N-d array!"])

\* main.py 241-272: the body of the try
try_show(st0, file, key) ==
  LET got == get_hdf_data(key \in Keys, Entries[key])
  IN  IF got.exc # "" THEN raise(st0, got.exc)
      ELSE IF got.data_type \in {"string", "number", "boolean"}
      THEN clear_plot_and_reset([st0 EXCEPT !.hdf_value_display = str(got.value)])
      ELSE IF got.data_type = "array"
      THEN show_array(st0, file, key, Entries[key], got.value)
      ELSE clear_plot_and_reset(
             [st0 EXCEPT !.hdf_value_display = Text(got.data_type, <<>>)])

\* a mutant: the handler resets with keep_display=True
catch_M(st) ==
  IF st.exc = "" THEN st
  ELSE [reset(st, TRUE) EXCEPT !.notify = "Error", !.exc = ""]

\* main.py 273-275
catch(st) ==
  IF st.exc = "" THEN st
  ELSE [reset(st, FALSE) EXCEPT !.notify = "Error", !.exc = ""]

\* main.py 234, 239: a file and a key are displayed and something has changed
has_news(st) ==
  /\ st.file_path_display # "" /\ st.hdf_key_display # ""
  /\ Some(ui_state(st)) # st.current_state

show_data(st) ==
  IF st.file_path_display # "" /\ st.hdf_key_display # "" THEN
    IF Some(ui_state(st)) # st.current_state
    THEN catch(try_show([st EXCEPT !.current_state = Some(ui_state(st))],
                        st.file_path_display, st.hdf_key_display))
    ELSE st
  ELSE clear_plot_and_reset([st EXCEPT !.hdf_value_display = EmptyText])

(***************************************************************************)
(* os.path.splitext on a path given as a sequence of characters: the       *)
(* extension starts at the last dot after the last separator, and the      *)
(* dots that start the file name do not count.                             *)
(***************************************************************************)
\* str.rfind, 1-based, 0 when absent
rfind(p, c) ==
  LET at == {i \in 1..Len(p) : p[i] = c}
  IN  IF at = {} THEN 0 ELSE CHOOSE i \in at : \A j \in at : j <= i

splitext(p) ==
  LET sepIndex == rfind(p, "/")
      dotIndex == rfind(p, ".")
  IN  IF dotIndex > sepIndex
         /\ \E i \in (sepIndex + 1)..(dotIndex - 1) : p[i] # "."
      THEN <<SubSeq(p, 1, dotIndex - 1), SubSeq(p, dotIndex, Len(p))>>
      ELSE <<p, <<>> >>

file_ext(p) == splitext(p)[2]

dot_tif == <<".", "t", "i", "f">>

dot_jpg == <<".", "j", "p", "g">>

dot_png == <<".", "p", "n", "g">>

dot_csv == <<".", "c", "s", "v">>

\* what the user may type into the save dialog: the paths FileSaver returns
SavePaths ==
  { <<"a">> \o dot_tif, <<"a">> \o dot_tif \o <<"f">>, <<"a">> \o dot_jpg,
    <<"a", ".", "j", "p", "e", "g">>, <<"a">> \o dot_png, <<"a">> \o dot_csv,
    <<"a">>, <<"a", ".">>, dot_csv, <<"a", ".", "T", "I", "F">>,
    <<"d">> \o dot_png \o <<"/", "a">>, <<"d", "/", "a", ".", "b">> \o dot_csv }

(***************************************************************************)
(* The export handlers (main.py 368-392, 403-424).  `done` is what the     *)
(* handler did: the writer it called and the path it gave it, and what it  *)
(* notified.  result: the dialog's result; outcome: what the writer did    *)
(* ("" wrote the file, "error" returned an error, "raise" raised).         *)
(***************************************************************************)
Done(writer, path, notify) == [writer |-> writer, path |-> path, notify |-> notify]

after_write(writer, path, outcome) ==
  Done(writer, path,
       IF outcome = "" THEN "File is saved or overwritten"
       ELSE IF outcome = "error" THEN "error" ELSE "")

\* a mutant: 'Save image' hands every path with an extension to a writer
save_image_M(st, result, outcome) ==
  IF result # None /\ st.image # None THEN
    LET file_path == result[1]
        ext == file_ext(file_path)
    IN  IF ext = <<>>
        THEN Done("", <<>>, "Please use .tif, .jpg, .png, or .csv as file extension!")
        ELSE IF ext = dot_csv
        THEN after_write("save_table", file_path, outcome)
        ELSE after_write("save_image", file_path, outcome)
  ELSE Done("", <<>>, "")

save_image(st, result, outcome) ==
  IF result # None /\ st.image # None THEN
    LET file_path == result[1]
        ext == file_ext(file_path)
    IN  IF ext # dot_tif /\ ext # dot_jpg /\ ext # dot_png /\ ext # dot_csv
        THEN Done("", <<>>, "Please use .tif, .jpg, .png, or .csv as file extension!")
        ELSE IF ext = dot_csv
        THEN after_write("save_table", file_path, outcome)
        ELSE after_write("save_image", file_path, outcome)
  ELSE Done("", <<>>, "")

\* a mutant: 'Save data' writes at the path as the dialog returned it
save_data_M(st, result, outcome) ==
  IF result # None /\ st.data_1d_2d # None THEN
    LET ext0 == file_ext(result[1])
    IN  IF ext0 # <<>> /\ ext0 # dot_csv
        THEN Done("", <<>>, "Please use .csv as file extension!")
        ELSE after_write("save_table", result[1], outcome)
  ELSE Done("", <<>>, "")

save_data(st, result, outcome) ==
  IF result # None /\ st.data_1d_2d # None THEN
    LET ext0 == file_ext(result[1])
        ext == IF ext0 = <<>> THEN dot_csv ELSE ext0
        file_path == IF ext0 = <<>> THEN result[1] \o dot_csv ELSE result[1]
    IN  IF ext # dot_csv
        THEN Done("", <<>>, "Please use .csv as file extension!")
        ELSE after_write("save_table", file_path, outcome)
  ELSE Done("", <<>>, "")

\* what a writer may do: save_table catches everything it raises (utilities.py
\* 138-145), save_image builds the image outside its try (utilities.py 127-131)
Outcomes(writer) ==
  IF writer = "save_image" THEN {"", "error", "raise"}
  ELSE IF writer = "save_table" THEN {"", "error"}
  ELSE {""}

(***************************************************************************)
(* hdf_tree_to_dict and __recurse (utilities.py 28-50).  An object of a    *)
(* file is a group with its members in the order of obj.keys(), a dataset  *)
(* or a named datatype; a path on disk is the sequence of its components.  *)
(* A node of the result is a dict with 'id' and 'label' and, for a group,  *)
(* 'children'.                                                             *)
(***************************************************************************)
Member(name, obj) == [name |-> name, obj |-> obj]

GroupOf(members) == [kind |-> "group", members |-> members]

Leaf(kind) == [kind |-> kind, members |-> <<>>]

\* the tree of f1.h5; its labels are the keys of Entries
F1Tree ==
  GroupOf(<<Member("b0", Leaf("dataset")), Member("ba2", Leaf("dataset")),
            Member("big3", Leaf("dataset")), Member("bigm", Leaf("dataset")),
            Member("c0", Leaf("dataset")),
            Member("g", GroupOf(<<Member("a3", Leaf("dataset")),
                                  Member("b3", Leaf("dataset"))>>)),
            Member("m33", Leaf("dataset")), Member("n0", Leaf("dataset")),
            Member("n1", Leaf("dataset")), Member("s0", Leaf("dataset")),
            Member("s22", Leaf("dataset")), Member("sa2", Leaf("dataset")),
            Member("sa3", Leaf("dataset")), Member("sa5", Leaf("dataset")),
            Member("t4", Leaf("dataset")), Member("v1", Leaf("dataset")),
            Member("vs2", Leaf("dataset")), Member("xy23", Leaf("dataset"))>>)

OddTree ==
  GroupOf(<<Member("e", GroupOf(<<>>)), Member("t", Leaf("datatype")),
            Member("v", Leaf("dataset"))>>)

\* what h5py.File finds at a path: None when the file is not HDF
Disk ==
  [f \in HdfFiles \cup OtherFiles |->
     [path |-> <<"home", f>>,
      content |-> CASE f = "f1.h5" -> Some(F1Tree)
                    [] f = "odd.h5" -> Some(OddTree)
                    [] OTHER -> None]]

\* os.path.basename
basename(path) == path[Len(path)]

Node(id, label, children) == [id |-> id, label |-> label, children |-> children]

RECURSIVE flatten(_)
flatten(lists) == IF lists = <<>> THEN <<>> ELSE Head(lists) \o flatten(Tail(lists))

\* utilities.py 28-36; the value is the returned list, or None where the code
\* falls off its end; exc is what it raised
RECURSIVE recurse(_, _, _)
recurse(parent_path, name, obj) ==
  LET current_path == IF parent_path # "" THEN parent_path \o "/" \o name ELSE name
  IN  IF obj.kind = "dataset"
      THEN [exc |-> "", value |-> Some(Node(name, current_path, None))]
      ELSE IF obj.kind = "group" THEN
        LET children == [i \in 1..Len(obj.members) |->
                           recurse(current_path, obj.members[i].name,
                                   obj.members[i].obj)]
        IN  IF \E i \in 1..Len(children) : children[i].exc # ""
            THEN [exc |-> "TypeError", value |-> None]
            ELSE IF \E i \in 1..Len(children) : children[i].value = None
            THEN [exc |-> "TypeError", value |-> None]
            ELSE [exc |-> "",
                  value |-> Some(Node(name, current_path,
                      Some(flatten([i \in 1..Len(children) |-> children[i].value]))))]
      ELSE [exc |-> "", value |-> None]

\* what a call did: returned a list, returned an exception object, or raised
Result(how, isinstance, value) == [how |-> how, isinstance |-> isinstance, value |-> value]

\* a mutant: hdf_tree_to_dict lets the exception out
hdf_tree_to_dict_M(hdf_file) ==
  IF Disk[hdf_file].content = None THEN Result("raise", "Exception", "OSError")
  ELSE LET result == recurse("", "", Disk[hdf_file].content[1])
       IN  IF result.exc # "" THEN Result("raise", "Exception", result.exc)
           ELSE LET file_name == basename(Disk[hdf_file].path)
                IN  Result("return", "list",
                           <<[result.value[1] EXCEPT !.id = file_name, !.label = "/"]>>)

\* utilities.py 39-50
hdf_tree_to_dict(hdf_file) ==
  IF Disk[hdf_file].content = None THEN Result("return", "Exception", "OSError")
  ELSE LET result == recurse("", "", Disk[hdf_file].content[1])
       IN  IF result.exc # "" THEN Result("return", "Exception", result.exc)
           ELSE LET file_name == basename(Disk[hdf_file].path)
                IN  Result("return", "list",
                           <<[result.value[1] EXCEPT !.id = file_name, !.label = "/"]>>)

(***************************************************************************)
(* The tree cards and the handlers around them (main.py 35-43, 311-339).   *)
(* A card is the tree of one opened file; `selected` is whether one of its *)
(* nodes is selected (a click on the selected node deselects it, and the   *)
(* tree then reports None).                                                *)
(***************************************************************************)
Card(file) == [file |-> file, selected |-> FALSE]

\* main.py 35-43; value is the event's value, None for a deselection
show_key(st, value, file_path) ==
  [(IF value # None THEN [st EXCEPT !.hdf_key_display = value[1]]
    ELSE [st EXCEPT !.hdf_value_display = EmptyText])
     EXCEPT !.file_path_display = file_path]

\* main.py 320: isinstance(hdf_dic, list)
opens_as_hdf(file_path) == hdf_tree_to_dict(file_path).isinstance = "list"

\* main.py 315-339, the widgets' part
pick_file(st, result) ==
  IF result = None THEN st
  ELSE [st EXCEPT !.file_path_display = result[1], !.hdf_key_display = "",
                  !.notify = IF opens_as_hdf(result[1]) THEN ""
                             ELSE "Input must be hdf, nxs, or h5 format!"]

\* main.py 323-328
close_file(st, file_path) ==
  IF st.current_state # None
  THEN IF file_path = st.current_state[1].file_path THEN reset(st, FALSE) ELSE st
  ELSE reset(st, FALSE)

RemoveAt(seq, i) == SubSeq(seq, 1, i - 1) \o SubSeq(seq, i + 1, Len(seq))

(***************************************************************************)
(* The viewer's steps.  `op` names the handler that ran last and, for an   *)
(* export handler, the dialog's result and what the handler did.           *)
(***************************************************************************)
Op(name) == [name |-> name, result |-> None, done |-> Done("", <<>>, "")]

\* one more event before the timer fires again
Event == events < MaxEvents /\ events' = events + 1

Quiet(st) == [st EXCEPT !.notify = ""]

Idle == <<>>

ViewerFrame == UNCHANGED <<probe, picker>>

\* the positions the user drags the slice slider to
SlidePositions(st) ==
  {v \in 0..st.main_slider_max : v <= MaxSlide \/ v = st.main_slider_max}

\* the positions the user drags the contrast sliders to
MinPositions == {0, 100}

MaxPositions == {100, MaxSliderMax}

Choices(list) == {list[i] : i \in 1..Min(MaxChoice, Len(list))}

\* ui.timer(UPDATE_RATE, show_data) (main.py 456)
Timer ==
  /\ ui' = show_data(Quiet(ui))
  /\ op' = Op("show_data")
  /\ events' = 0
  /\ UNCHANGED <<dialog, trees>>
  /\ ViewerFrame

\* a widget of the page changes its value; none does under an open dialog
Widget(new) ==
  /\ dialog = ""
  /\ Event
  /\ new # ui
  /\ ui' = new
  /\ op' = Op("widget")
  /\ UNCHANGED <<dialog, trees>>
  /\ ViewerFrame

SelectAxis ==
  /\ ui.axis_list_enabled
  /\ \E v \in {AXIS_LIST[i] : i \in 1..Len(AXIS_LIST)} :
       Widget([ui EXCEPT !.axis_list = v])

SelectCmap ==
  /\ ui.cmap_list_enabled
  /\ \E v \in Choices(CMAP_LIST) : Widget([ui EXCEPT !.cmap_list = v])

SelectDisplayType ==
  /\ ui.display_type_enabled
  /\ \E v \in Choices(DISPLAY_TYPE) : Widget([ui EXCEPT !.display_type = v])

SelectMarker ==
  /\ ui.marker_list_enabled
  /\ \E v \in Choices(MARKER_LIST) : Widget([ui EXCEPT !.marker_list = v])

SlideMain ==
  /\ ui.main_slider_enabled
  /\ \E v \in SlidePositions(ui) : Widget([ui EXCEPT !.main_slider = v])

SlideMin ==
  /\ ui.min_slider_enabled
  /\ \E v \in MinPositions : Widget([ui EXCEPT !.min_slider = v])

SlideMax ==
  /\ ui.max_slider_enabled
  /\ \E v \in MaxPositions : Widget([ui EXCEPT !.max_slider = v])

\* the 'Reset' button (main.py 451)
ClickReset == Widget(reset_min_max(ui))

\* a click on a node of a tree card (main.py 333-335)
SelectNodeOf(keys) ==
  /\ dialog = ""
  /\ Event
  /\ \E i \in 1..Len(trees) :
       \/ \E key \in keys :
            /\ ui' = show_key(Quiet(ui), Some(key), trees[i].file)
            /\ trees' = [trees EXCEPT ![i].selected = TRUE]
       \/ /\ trees[i].selected
          /\ ui' = show_key(Quiet(ui), None, trees[i].file)
          /\ trees' = [trees EXCEPT ![i].selected = FALSE]
  /\ op' = Op("show_key")
  /\ UNCHANGED dialog
  /\ ViewerFrame

\* 'Close file' on a tree card (main.py 336-337)
CloseFile ==
  /\ dialog = ""
  /\ Event
  /\ \E i \in 1..Len(trees) :
       /\ ui' = close_file(Quiet(ui), trees[i].file)
       /\ trees' = RemoveAt(trees, i)
  /\ op' = Op("close_file")
  /\ UNCHANGED dialog
  /\ ViewerFrame

\* a button opens its dialog and awaits the result (main.py 313, 370, 405)
Open(name) ==
  /\ dialog = ""
  /\ dialog' = name
  /\ op' = Op("open")
  /\ UNCHANGED <<ui, trees, events>>
  /\ ViewerFrame

ClickSelectFile == Open("pick_file")

ClickSaveImage == ui.save_image_button /\ Open("save_image")

ClickSaveData == ui.save_data_button /\ Open("save_data")

\* the file dialog returns (main.py 315-339)
PickFileDoneOf(files) ==
  /\ dialog = "pick_file"
  /\ Event
  /\ \E result \in {None} \cup {Some(f) : f \in files} :
       /\ ui' = pick_file(Quiet(ui), result)
       /\ IF result # None /\ opens_as_hdf(result[1])
          THEN /\ Len(trees) < MaxCards
               /\ trees' = Append(trees, Card(result[1]))
          ELSE UNCHANGED trees
       /\ op' = [Op("pick_file") EXCEPT !.result = result]
  /\ dialog' = ""
  /\ ViewerFrame

PickFileDone == PickFileDoneOf(HdfFiles \cup OtherFiles)

\* a save dialog returns (main.py 372-392, 406-424)
Export(name) ==
  /\ dialog = name
  /\ Event
  /\ \E result \in {None} \cup {Some(p) : p \in SavePaths},
        outcome \in {"", "error", "raise"} :
       LET done == IF name = "save_image" THEN save_image(ui, result, outcome)
                   ELSE save_data(ui, result, outcome)
       IN  /\ outcome \in Outcomes(done.writer)
           /\ op' = [name |-> name, result |-> result, done |-> done]
           /\ ui' = [ui EXCEPT !.notify = done.notify]
  /\ dialog' = ""
  /\ UNCHANGED trees
  /\ ViewerFrame

SaveImageDone == Export("save_image")

SaveDataDone == Export("save_data")

Init ==
  /\ ui = InitUi
  /\ dialog = ""
  /\ trees = <<>>
  /\ op = Op("main")
  /\ events = 0
  /\ probe = Idle
  /\ picker = Idle

(***************************************************************************)
(* Spec: the display modes.  The user opens and closes files, clicks on    *)
(* nodes of every kind of display, and uses the selectors and the slice    *)
(* slider.                                                                 *)
(***************************************************************************)
ViewKeys == {"g/a3", "m33", "n0", "ba2"}

SelectNode == SelectNodeOf(ViewKeys)

Next ==
  \/ Timer
  \/ SelectAxis \/ SelectDisplayType \/ SlideMain
  \/ SelectNode \/ CloseFile
  \/ ClickSelectFile \/ PickFileDone

Spec == Init /\ [][Next]_vars

(***************************************************************************)
(* Spec3d: slicing and contrast.  The user clicks on the 3D datasets (one  *)
(* of them very large) and on a 2D image of one file, and uses the axis    *)
(* selector and the sliders.                                               *)
(***************************************************************************)
ImageKeys == {"g/a3", "g/b3", "big3", "m33"}

SelectImageNode == SelectNodeOf(ImageKeys)

PickImageFile == PickFileDoneOf({"f1.h5"})

Next3d ==
  \/ Timer
  \/ SelectAxis \/ SlideMain \/ SlideMin \/ SlideMax \/ ClickReset
  \/ SelectImageNode
  \/ ClickSelectFile \/ PickImageFile

Spec3d == Init /\ [][Next3d]_vars

(***************************************************************************)
(* SpecKinds: the dispatch on the kind of entry.  The user clicks on every *)
(* node of one file and uses the selectors of the 1D/2D display.           *)
(***************************************************************************)
SelectAnyNode == SelectNodeOf(Keys)

NextKinds ==
  \/ Timer
  \/ SelectDisplayType \/ SelectCmap \/ SelectMarker
  \/ SelectAnyNode
  \/ ClickSelectFile \/ PickImageFile

SpecKinds == Init /\ [][NextKinds]_vars

(***************************************************************************)
(* SpecExport: the two export buttons, over a 3D dataset, a 2D dataset and *)
(* a scalar.                                                               *)
(***************************************************************************)
ExportKeys == {"g/a3", "m33", "n0"}

SelectExportNode == SelectNodeOf(ExportKeys)

NextExport ==
  \/ Timer
  \/ SelectExportNode
  \/ ClickSelectFile \/ PickImageFile
  \/ ClickSaveImage \/ ClickSaveData
  \/ SaveImageDone \/ SaveDataDone

SpecExport == Init /\ [][NextExport]_vars

(***************************************************************************)
(* SpecData: get_hdf_data on its own.  The inputs are a path absent from   *)
(* the file, a group, and a dataset of every element type h5py reads, of   *)
(* every shape of rank up to MaxRank with up to MaxDim elements along an   *)
(* axis; the one step is the call.                                         *)
(***************************************************************************)
MaxRank == 2

MaxDim == 2

RECURSIVE Shapes(_)
Shapes(n) ==
  IF n = 0 THEN {<<>>}
  ELSE Shapes(n - 1) \cup
       {Append(sh, d) : sh \in {x \in Shapes(n - 1) : Len(x) = n - 1}, d \in 0..MaxDim}

DatasetKinds == {"S", "vlen", "i", "f", "u", "b", "c"}

Items == {Group} \cup {Dataset(k, sh) : k \in DatasetKinds, sh \in Shapes(MaxRank)}

Asked(present, item) ==
  [stage |-> "asked", present |-> present, item |-> item, result |-> Raised("")]

InitData ==
  /\ ui = InitUi /\ dialog = "" /\ trees = <<>> /\ op = Op("main") /\ events = 0
  /\ picker = Idle
  /\ probe \in {Asked(present, item) : present \in BOOLEAN, item \in Items}

CallGetHdfData ==
  /\ probe.stage = "asked"
  /\ probe' = [probe EXCEPT !.stage = "answered",
                            !.result = get_hdf_data(probe.present, probe.item)]
  /\ UNCHANGED <<ui, dialog, trees, op, events, picker>>

NextData == CallGetHdfData

SpecData == InitData /\ [][NextData]_vars

(***************************************************************************)
(* SpecContrast: the contrast window of display_3d_data (main.py 161-173)  *)
(* on the pixels of a slice.  A slice is a short list of pixel values of   *)
(* the dataset's element type; numpy computes image - nmin and nmax - nmin *)
(* in that type, so a signed 8-bit difference wraps around.  The           *)
(* conversion of a float outside 0..255 to uint8 is undefined in C: the    *)
(* build either wraps it around or saturates it.                           *)
(***************************************************************************)
MaxPixels == 3

\* a value of a signed / an unsigned integer type of `bits` bits
wrap_signed(x, bits) == ((x + 2 ^ (bits - 1)) % (2 ^ bits)) - 2 ^ (bits - 1)

wrap_unsigned(x, bits) == x % (2 ^ bits)

\* the element types of the slices, and arithmetic in them
Dtypes == {"int8", "uint8", "float64"}

in_dtype(x, dtype) ==
  IF dtype = "int8" THEN wrap_signed(x, 8)
  ELSE IF dtype = "uint8" THEN wrap_unsigned(x, 8)
  ELSE x

PixelValues(dtype) == IF dtype = "uint8" THEN {0, 100, 200} ELSE {-100, 0, 100}

RECURSIVE np_min(_)
np_min(image) ==
  IF Len(image) = 1 THEN image[1]
  ELSE LET m == np_min(Tail(image)) IN IF image[1] < m THEN image[1] ELSE m

RECURSIVE np_max(_)
np_max(image) ==
  IF Len(image) = 1 THEN image[1]
  ELSE LET m == np_max(Tail(image)) IN IF image[1] > m THEN image[1] ELSE m

\* the integer part of a / b, as a float-to-integer conversion takes it
trunc_div(a, b) ==
  LET q == (IF a < 0 THEN -a ELSE a) \div (IF b < 0 THEN -b ELSE b)
  IN  IF (a < 0) = (b < 0) THEN q ELSE -q

\* np.uint8 of the float a / b; cast is what the build does out of range
np_uint8(a, b, cast) ==
  LET t == trunc_div(a, b)
  IN  IF t >= 0 /\ t <= MaxSliderMax THEN t
      ELSE IF cast = "wrap" THEN wrap_unsigned(t, 8)
      ELSE IF t < 0 THEN 0 ELSE MaxSliderMax

\* main.py 161-173: the rendered pixels and the min slider after the run
image1(image, dtype, min_slider, max_slider, cast) ==
  LET max_val == max_slider
  IN  IF min_slider > 0 \/ max_val < MaxSliderMax THEN
        LET min_val == IF min_slider >= max_val
                       THEN clip(max_val - 1, 0, MinSliderMax) ELSE min_slider
            nmin == np_min(image)
            nmax == np_max(image)
            span == in_dtype(nmax - nmin, dtype)
        IN  [min_slider |-> min_val,
             pixels |-> IF nmax # nmin
                        THEN [i \in 1..Len(image) |->
                                clip(np_uint8(255 * in_dtype(image[i] - nmin, dtype),
                                              span, cast),
                                     min_val, max_val)]
                        ELSE [i \in 1..Len(image) |-> 0]]
      ELSE [min_slider |-> min_slider, pixels |-> image]

RECURSIVE Images(_, _)
Images(n, values) ==
  IF n = 0 THEN {<<>>}
  ELSE {Append(im, v) : im \in Images(n - 1, values), v \in values}

Drawn(dtype, image, min_slider, max_slider) ==
  [stage |-> "asked", dtype |-> dtype, image |-> image,
   min_slider |-> min_slider, max_slider |-> max_slider,
   result |-> [min_slider |-> min_slider, pixels |-> <<>>]]

InitContrast ==
  /\ ui = InitUi /\ dialog = "" /\ trees = <<>> /\ op = Op("main") /\ events = 0
  /\ picker = Idle
  /\ \E dtype \in Dtypes, min_slider \in {0, 100, MinSliderMax},
        max_slider \in {1, 100, MaxSliderMax} :
       \E image \in Images(MaxPixels, PixelValues(dtype)) :
         probe = Drawn(dtype, image, min_slider, max_slider)

DrawWithContrast ==
  /\ probe.stage = "asked"
  /\ \E cast \in {"wrap", "saturate"} :
       probe' = [probe EXCEPT !.stage = "drawn",
                              !.result = image1(probe.image, probe.dtype,
                                                probe.min_slider, probe.max_slider,
                                                cast)]
  /\ UNCHANGED <<ui, dialog, trees, op, events, picker>>

NextContrast == DrawWithContrast

SpecContrast == InitContrast /\ [][NextContrast]_vars

(***************************************************************************)
(* SpecPlot: display_1d_2d_data (main.py 180-227) on 1D and 2D datasets of *)
(* every small shape, in both display types and with the selectors of the  *)
(* 1D/2D display at any of their choices.                                  *)
(***************************************************************************)
MaxSide == 3

PlotShapes ==
  {<<n>> : n \in 1..MaxSide} \cup {<<h, w>> : h \in 1..MaxSide, w \in 1..MaxSide}

Called(shape, st, disp_type) ==
  [stage |-> "called", shape |-> shape, disp_type |-> disp_type, result |-> st]

InitPlot ==
  /\ ui = InitUi /\ dialog = "" /\ trees = <<>> /\ op = Op("main") /\ events = 0
  /\ picker = Idle
  /\ \E shape \in PlotShapes, cmap \in Choices(CMAP_LIST),
        marker \in Choices(MARKER_LIST), disp_type \in Choices(DISPLAY_TYPE) :
       probe = Called(shape,
                      [InitUi EXCEPT !.cmap_list = cmap, !.marker_list = marker,
                                     !.display_type = disp_type,
                                     !.file_path_display = "f1.h5",
                                     !.hdf_key_display = "d"],
                      disp_type)

CallDisplay1d2dData ==
  /\ probe.stage = "called"
  /\ probe' = [probe EXCEPT !.stage = "displayed",
                            !.result = display_1d_2d_data(probe.result, "f1.h5", "d",
                                                          probe.shape, probe.disp_type)]
  /\ UNCHANGED <<ui, dialog, trees, op, events, picker>>

NextPlot == CallDisplay1d2dData

SpecPlot == InitPlot /\ [][NextPlot]_vars

(***************************************************************************)
(* The file dialogs (components.py).  A file name is a sequence of         *)
(* characters, a path the sequence of the names from the root (on Windows  *)
(* the root of the first drive) down; str.lower and the order of strings   *)
(* go by the characters' codes.                                            *)
(***************************************************************************)
Ascii ==
  <<".", "/", "0", "1", "2", "3", "4", "5", "6", "7", "8", "9",
    "A", "B", "C", "D", "E", "F", "G", "H", "I", "J", "K", "L", "M",
    "N", "O", "P", "Q", "R", "S", "T", "U", "V", "W", "X", "Y", "Z",
    "a", "b", "c", "d", "e", "f", "g", "h", "i", "j", "k", "l", "m",
    "n", "o", "p", "q", "r", "s", "t", "u", "v", "w", "x", "y", "z">>

Codes == [c \in {Ascii[i] : i \in 1..Len(Ascii)} |->
            CHOOSE i \in 1..Len(Ascii) : Ascii[i] = c]

ord(c) == Codes[c]

is_upper(c) == ord(c) >= ord("A") /\ ord(c) <= ord("Z")

lower(s) ==
  [i \in 1..Len(s) |->
     IF is_upper(s[i]) THEN Ascii[ord(s[i]) + (ord("a") - ord("A"))] ELSE s[i]]

RECURSIVE str_less(_, _)
str_less(a, b) ==
  IF b = <<>> THEN FALSE
  ELSE IF a = <<>> THEN TRUE
  ELSE IF a[1] # b[1] THEN ord(a[1]) < ord(b[1])
  ELSE str_less(Tail(a), Tail(b))

\* Path.parent and Path.name
parent(p) == IF p = <<>> THEN <<>> ELSE SubSeq(p, 1, Len(p) - 1)

name(p) == IF p = <<>> THEN <<>> ELSE p[Len(p)]

\* the place list.sort gives the entry at i: after the entries with a smaller
\* key and after the earlier entries with the same key (the sort is stable)
place(keys, i) ==
  1 + Cardinality({j \in 1..Len(keys) :
        \/ str_less(keys[j], keys[i])
        \/ keys[j] = keys[i] /\ j < i})

\* paths.sort(key=...), given the list of the entries' keys
sort(paths, keys) ==
  [k \in 1..Len(paths) |-> paths[CHOOSE i \in 1..Len(paths) : place(keys, i) = k]]

\* the disk: the directories there are at the start, and the files
Root == <<>>

dir_a == <<"a">>

dir_b == <<"b">>

dir_d == <<"d">>

dir_e_h5 == <<"e", ".", "h", "5">>

x_h5 == <<"x", ".", "h", "5">>

y_H5 == <<"y", ".", "H", "5">>

h5 == <<"h", "5">>

z_txt == <<"z", ".", "t", "x", "t">>

dot_s_h5 == <<".", "s", ".", "h", "5">>

w_nxs == <<"w", ".", "n", "x", "s">>

Dirs0 == {Root, <<dir_a>>, <<dir_a, dir_d>>, <<dir_a, dir_e_h5>>, <<dir_b>>}

Files ==
  {<<dir_a, dir_d, x_h5>>, <<dir_a, y_H5>>, <<dir_a, h5>>, <<dir_a, z_txt>>,
   <<dir_a, dot_s_h5>>, <<dir_b, w_nxs>>}

\* how many folders 'Create Folder' may add
MaxFolders == 1

\* the constructor's upper_limit argument: None, Ellipsis or a directory
NoLimit == [k |-> "None", p |-> <<>>]

Ellipsis == [k |-> "...", p |-> <<>>]

Limit(p) == [k |-> "path", p |-> p]

Row(kind, label, path) == [kind |-> kind, name |-> label, path |-> path]

is_dir(pk, p) == p \in pk.dirs

\* Path.glob('*'), as a list in some order
glob(pk) == {q \in pk.dirs \cup Files : q # Root /\ parent(q) = pk.path}

RECURSIVE as_list(_)
as_list(S) ==
  IF S = {} THEN <<>>
  ELSE LET x == CHOOSE x \in S : TRUE IN <<x>> \o as_list(S \ {x})

\* components.py 66-71
check_extension(pk, filename) ==
  IF pk.allowed_extensions = None THEN TRUE
  ELSE LET last == SubSeq(filename, rfind(filename, ".") + 1, Len(filename))
           allowed == pk.allowed_extensions[1]
       IN  \E i \in 1..Len(allowed) : allowed[i] = lower(last)

\* components.py 98-106, 196-204: the '..' row
parent_row_offered(pk) ==
  \/ pk.upper_limit = None /\ pk.path # parent(pk.path)
  \/ pk.upper_limit # None /\ pk.path # pk.upper_limit[1]

\* components.py 87-107 and 185-205 (FileSaver's has no extension filter)
update_grid(pk) ==
  LET by_name(l) == [i \in 1..Len(l) |-> lower(name(l[i]))]
      \* the key `not p.is_dir()`: False sorts before True
      dirs_first(l) == [i \in 1..Len(l) |-> IF is_dir(pk, l[i]) THEN <<>> ELSE <<"1">>]
      shown(p) == pk.show_hidden_files \/ name(p)[1] # "."
      allowed(p) ==
        \/ pk.cls = "FileSaver"
        \/ pk.allowed_extensions = None \/ pk.allowed_extensions = Some(<<>>)
        \/ is_dir(pk, p) \/ check_extension(pk, name(p))
      paths0 == SelectSeq(SelectSeq(as_list(glob(pk)), shown), allowed)
      paths1 == sort(paths0, by_name(paths0))
      paths == sort(paths1, dirs_first(paths1))
      rowData == [i \in 1..Len(paths) |->
                    Row(IF is_dir(pk, paths[i]) THEN "dir" ELSE "file",
                        name(paths[i]), paths[i])]
  IN  [pk EXCEPT !.rowData =
                    IF parent_row_offered(pk)
                    THEN <<Row("dir", <<".", ".">>, parent(pk.path))>> \o rowData
                    ELSE rowData,
                 !.selected = 0]

\* components.py 73-80 and 164-171: on Windows the dialog starts at the
\* first drive's root
add_drives_toggle(pk, system) ==
  IF system = "Windows" THEN [pk EXCEPT !.path = Root] ELSE pk

\* FilePicker.__init__ (components.py 19-64) and FileSaver.__init__
\* (components.py 125-162)
new_dialog(cls, system, directory, upper_limit, show_hidden_files, allowed_extensions) ==
  LET pk == [cls |-> cls,
             show_hidden_files |-> show_hidden_files,
             allowed_extensions |-> allowed_extensions,
             path |-> directory,
             upper_limit |-> IF upper_limit = NoLimit THEN None
                             ELSE IF upper_limit = Ellipsis THEN Some(directory)
                             ELSE Some(upper_limit.p),
             rowData |-> <<>>, selected |-> 0, filename_input |-> <<>>,
             dirs |-> Dirs0, open |-> TRUE, result |-> None,
             notify |-> "", exc |-> ""]
  IN  update_grid(add_drives_toggle(pk, system))

\* ui.dialog.submit and ui.dialog.close
submit(pk, result) == [pk EXCEPT !.open = FALSE, !.result = Some(result)]

close(pk) == [pk EXCEPT !.open = FALSE]

\* components.py 109-114 and 207-213
handle_double_click(pk0, row) ==
  LET pk == [pk0 EXCEPT !.path = row.path]
  IN  IF is_dir(pk, pk.path) THEN update_grid(pk)
      ELSE IF pk.cls = "FilePicker" THEN submit(pk, pk.path)
      ELSE [pk EXCEPT !.filename_input = name(pk.path), !.path = parent(pk.path)]

\* components.py 116-120
handle_ok(pk) ==
  LET fpath == IF pk.selected = 0 THEN <<>> ELSE <<pk.rowData[pk.selected].path>>
  IN  IF fpath = <<>> THEN [pk EXCEPT !.exc = "IndexError"]
      ELSE submit(pk, fpath[1])

\* components.py 215-222
handle_save(pk) ==
  LET filename == pk.filename_input
  IN  IF filename = <<>> THEN [pk EXCEPT !.notify = "File name cannot be empty!"]
      ELSE submit(pk, Append(pk.path, filename))

\* components.py 236-245
create_folder(pk, folder_name) ==
  IF folder_name = <<>> THEN [pk EXCEPT !.notify = "Folder name cannot be empty!"]
  ELSE LET new_folder_path == Append(pk.path, folder_name)
       IN  IF new_folder_path \in pk.dirs \cup Files
           THEN [pk EXCEPT !.notify = "A folder of this name already exists!"]
           ELSE update_grid([pk EXCEPT !.dirs = @ \cup {new_folder_path}])

(***************************************************************************)
(* SpecPicker: one dialog, from its construction to its result.  The       *)
(* dialog is built for every starting directory and stopping directory of  *)
(* the disk, on Linux and on Windows.                                      *)
(***************************************************************************)
StartDirs == {<<dir_a>>, <<dir_a, dir_d>>, <<dir_b>>}

UpperLimits == {NoLimit, Ellipsis, Limit(<<dir_a>>)}

TypedNames == {<<>>, <<"n">>, dir_d}

a_step(pk) == [pk EXCEPT !.notify = "", !.exc = ""]

InitPicker ==
  /\ ui = InitUi /\ dialog = "" /\ trees = <<>> /\ op = Op("main") /\ events = 0
  /\ probe = Idle
  /\ \E system \in {"Linux", "Windows"}, directory \in StartDirs,
        upper_limit \in UpperLimits, show_hidden_files \in BOOLEAN :
       \/ \E allowed_extensions \in {None, Some(INPUT_EXT)} :
            picker = new_dialog("FilePicker", system, directory, upper_limit,
                                show_hidden_files, allowed_extensions)
       \/ picker = new_dialog("FileSaver", system, directory, upper_limit,
                              show_hidden_files, None)

PickerStep(next) ==
  /\ picker.open
  /\ picker' = next
  /\ UNCHANGED <<ui, dialog, trees, op, events, probe>>

\* a click selects a row of the grid
SelectRow ==
  \E i \in 1..Len(picker.rowData) :
    i # picker.selected /\ PickerStep([a_step(picker) EXCEPT !.selected = i])

DoubleClick ==
  \E i \in 1..Len(picker.rowData) :
    PickerStep(handle_double_click(a_step(picker), picker.rowData[i]))

ClickOk == picker.cls = "FilePicker" /\ PickerStep(handle_ok(a_step(picker)))

ClickCancel == PickerStep(close(a_step(picker)))

TypeFileName ==
  /\ picker.cls = "FileSaver"
  /\ \E filename \in TypedNames :
       /\ filename # picker.filename_input
       /\ PickerStep([a_step(picker) EXCEPT !.filename_input = filename])

ClickSave == picker.cls = "FileSaver" /\ PickerStep(handle_save(a_step(picker)))

ClickCreateFolder ==
  /\ picker.cls = "FileSaver"
  /\ Cardinality(picker.dirs \ Dirs0) < MaxFolders
  /\ \E folder_name \in TypedNames :
       PickerStep(create_folder(a_step(picker), folder_name))

NextPicker ==
  \/ SelectRow \/ DoubleClick \/ ClickOk \/ ClickCancel
  \/ TypeFileName \/ ClickSave \/ ClickCreateFolder

SpecPicker == InitPicker /\ [][NextPicker]_vars

(***************************************************************************)
(* The claims.                                                             *)
(***************************************************************************)
ImageControlEnabled(st) ==
  \/ st.axis_list_enabled \/ st.cmap_list_enabled \/ st.main_slider_enabled
  \/ st.min_slider_enabled \/ st.max_slider_enabled \/ st.save_image_button

DataControlEnabled(st) ==
  st.display_type_enabled \/ st.marker_list_enabled \/ st.save_data_button

Exclusive(st) ==
  /\ ~(st.main_table_visible /\ st.main_plot_visible)
  /\ ~(ImageControlEnabled(st) /\ DataControlEnabled(st))

\* C1, as stated: in every reachable state the table and the plot are not both
\* visible and no image control is enabled together with a 1D/2D control.
C1_ExclusiveEverywhere == Exclusive(ui)

\* C1, amended: every run of show_data leaves the display exclusive (the table
\* and the plot not both visible, no image control enabled together with a
\* 1D/2D control), and no handler makes an exclusive display non-exclusive; so
\* the display is exclusive in every state from the first run of show_data on.
C1_ExclusiveOnceShown ==
  [][ /\ op'.name = "show_data" => Exclusive(ui')
      /\ Exclusive(ui) => Exclusive(ui') ]_vars

\* C1's case: show_data has switched the page from a 1D/2D display to a slice
\* of a 3D dataset.
C1_Witness ==
  /\ op.name = "show_data"
  /\ ui.image # None /\ ui.axis_list_enabled /\ ~ui.display_type_enabled
  /\ ui.main_table_rows # None

\* the dataset show_data is about to read
about_to_show(st) == Entries[st.hdf_key_display]

classified_as(st) == get_hdf_data(TRUE, about_to_show(st)).data_type

rank(item) == Len(item.shape)

ControlsReset(st) ==
  /\ st.axis_list = AXIS_LIST[1] /\ ~st.axis_list_enabled
  /\ st.cmap_list = CMAP_LIST[1] /\ ~st.cmap_list_enabled
  /\ st.display_type = DISPLAY_TYPE[1] /\ ~st.display_type_enabled
  /\ st.marker_list = MARKER_LIST[1] /\ ~st.marker_list_enabled
  /\ st.main_slider = 0 /\ ~st.main_slider_enabled
  /\ st.min_slider = 0 /\ ~st.min_slider_enabled
  /\ st.max_slider = 255 /\ ~st.max_slider_enabled
  /\ ~st.save_image_button /\ ~st.save_data_button
  /\ st.image = None /\ st.data_1d_2d = None
  /\ st.main_plot_visible /\ ~st.main_table_visible

\* what the claim says show_data does with an array of the given rank
ChosenByRank(before, after) ==
  LET key == before.hdf_key_display
      file == before.file_path_display
      r == rank(about_to_show(before))
  IN  /\ r = 3 =>
           /\ after.image # None /\ after.figure.src = after.image
           /\ after.axis_list_enabled
      /\ r \in {1, 2} =>
           /\ after.data_1d_2d = Some(Data(file, key))
           /\ IF before.display_type = "table"
              THEN after.main_table_visible /\ ~after.main_plot_visible
              ELSE after.main_plot_visible /\ ~after.main_table_visible
      /\ r > 3 =>
           /\ after.figure = Cleared
           /\ after.notify = "Can't display N-d array!"
           /\ ControlsReset(after)

\* C2, as stated: when show_data reads a dataset that get_hdf_data classifies
\* as 'array', the display it chooses follows from the dataset's rank and the
\* display-type selector alone: 3 -> slice image, 1 or 2 -> plot or table as
\* selected, above 3 -> nothing displayed, a notification and the controls
\* reset.
C2_RankDecides ==
  [][ (op'.name = "show_data" /\ has_news(ui) /\ classified_as(ui) = "array")
        => ChosenByRank(ui, ui') ]_vars

\* C3, as stated: after show_data has processed a 3D dataset, the held image is
\* the slice of the dataset named in the key display, at the current axis and
\* slider position.
C3_ImageIsCurrentSlice ==
  (op.name = "show_data" /\ ui.image # None)
    => ui.image = Some(Slice(ui.file_path_display, ui.hdf_key_display,
                             ui.axis_list, ui.main_slider))

\* show_data has drawn a slice of a 3D dataset / a 2D dataset as an image
ShowsSlice(st) == st.image # None

Shows2dImage(st) ==
  /\ st.data_1d_2d # None /\ st.main_plot_visible
  /\ st.figure = Shown2d(st.data_1d_2d[1], st.cmap_list)

\* the min and max sliders' values are the window of the rendered image
WindowApplied(st) ==
  IF st.min_slider > 0 \/ st.max_slider < 255
  THEN st.figure = Shown3d("clip", st.image, st.min_slider, st.max_slider, st.cmap_list)
  ELSE st.figure = Shown3d("copy", st.image, st.min_slider, st.max_slider, st.cmap_list)

\* C4, as stated: whenever show_data has left a 2D array or a slice of a 3D
\* array drawn as an image, the min and max sliders are enabled and the image
\* is rendered with the values they show.
C4_ContrastForEveryImage ==
  (op.name = "show_data" /\ (ShowsSlice(ui) \/ Shows2dImage(ui)))
    => /\ ui.min_slider_enabled /\ ui.max_slider_enabled
       /\ ShowsSlice(ui) => WindowApplied(ui)

\* the page after reset() (main.py 96-117)
WholeUiReset(st) ==
  /\ st.file_path_display = "" /\ st.hdf_key_display = ""
  /\ st.hdf_value_display = EmptyText
  /\ ControlsReset(st)

\* show_data is about to read a dataset and the read or the display raises
raises_on(st) ==
  /\ has_news(st)
  /\ try_show(st, st.file_path_display, st.hdf_key_display).exc # ""

ImagePaths == { <<"a">> \o dot_tif, <<"a">> \o dot_jpg, <<"a">> \o dot_png }

CsvPaths == { <<"a">> \o dot_csv, <<"d", "/", "a", ".", "b">> \o dot_csv }

BarePaths == { <<"a">>, dot_csv, <<"d">> \o dot_png \o <<"/", "a">> }

wrote(done) == done.writer # "" /\ done.notify = "File is saved or overwritten"

\* C7: 'Save image' calls a writer only when the dialog returned a path, an
\* image is held and the path ends in .tif, .jpg, .png or .csv; a .csv path
\* goes to the table writer and the other three to the image writer, with the
\* path as returned; for every other path (.tiff, .jpeg, .TIF, no extension)
\* no writer is called and the user is told to use one of the four extensions.
C7_SaveImageByExtension ==
  op.name = "save_image" =>
    IF op.result = None \/ ui.image = None
    THEN op.done = Done("", <<>>, "")
    ELSE LET file_path == op.result[1]
         IN  /\ file_path \in CsvPaths
                  => op.done.writer = "save_table" /\ op.done.path = file_path
             /\ file_path \in ImagePaths
                  => op.done.writer = "save_image" /\ op.done.path = file_path
             /\ file_path \notin CsvPaths \cup ImagePaths
                  => op.done = Done("", <<>>,
                       "Please use .tif, .jpg, .png, or .csv as file extension!")

\* C7's case: 'Save image' has written the held slice as a .png image.
C7_Witness ==
  /\ op.name = "save_image" /\ op.result = Some(<<"a">> \o dot_png)
  /\ ui.image # None /\ wrote(op.done) /\ op.done.writer = "save_image"

\* C8: 'Save data' calls the table writer and no other; for a path with no
\* extension it writes at the path with '.csv' appended, for a .csv path at
\* the path as returned; for a path with any other extension it writes
\* nothing and tells the user to use .csv; it writes nothing when the dialog
\* returned no path or no 1D/2D data is held.
C8_SaveDataCsvOnly ==
  op.name = "save_data" =>
    IF op.result = None \/ ui.data_1d_2d = None
    THEN op.done = Done("", <<>>, "")
    ELSE LET file_path == op.result[1]
         IN  /\ file_path \in BarePaths
                  => /\ op.done.writer = "save_table"
                     /\ op.done.path = file_path \o dot_csv
             /\ file_path \in CsvPaths
                  => op.done.writer = "save_table" /\ op.done.path = file_path
             /\ file_path \notin BarePaths \cup CsvPaths
                  => op.done = Done("", <<>>, "Please use .csv as file extension!")

\* C8's case: 'Save data' has written the held 2D data at a path the user
\* gave without an extension.
C8_Witness ==
  /\ op.name = "save_data" /\ op.result = Some(<<"a">>)
  /\ ui.data_1d_2d # None /\ wrote(op.done)
  /\ op.done.path = <<"a">> \o dot_csv

\* the tag the claim gives an input
tag_claimed(present, item) ==
  IF ~present THEN "not path"
  ELSE IF item.kind = "group" THEN "group"
  ELSE IF item.kind \in {"S", "U", "vlen"} /\ size(item) = 1 THEN "string"
  ELSE IF item.kind \in {"i", "f", "u"} /\ (item.shape = <<>> \/ size(item) = 1)
       THEN "number"
  ELSE IF item.kind \in {"i", "f", "u", "S", "U"} /\ size(item) > 1 THEN "array"
  ELSE IF item.kind = "b" THEN "boolean"
  ELSE "unknown"

\* C5, as stated: get_hdf_data returns, for every input, the one tag the claim
\* gives it; the value is None exactly for 'not path', 'group' and 'unknown',
\* and the value of a numeric array is the dataset's shape.
C5_OneTagForEveryInput ==
  probe.stage = "answered" =>
    LET r == probe.result
    IN  /\ r.exc = ""
        /\ r.data_type = tag_claimed(probe.present, probe.item)
        /\ (r.value = NoValue) <=> (r.data_type \in {"not path", "group", "unknown"})
        /\ (r.data_type = "array" /\ probe.item.kind \in {"i", "f", "u"})
             => r.value = Value("shape", probe.item.shape)

\* the path is the directory `top` or lies below it
is_within(p, top) == Len(p) >= Len(top) /\ SubSeq(p, 1, Len(top)) = top

\* the extension of a file name, without its dot and in lower case
extension(filename) ==
  LET ext == file_ext(filename)
  IN  IF ext = <<>> THEN <<>> ELSE lower(Tail(ext))

\* C9, as stated: the path a FilePicker with allowed_extensions resolves to is
\* a file, never a directory, and its extension, compared without regard to
\* case, is one of the allowed ones; whether it was double-clicked or selected
\* and confirmed with 'Ok'.
C9_ResultIsAllowedFile ==
  (/\ picker # Idle /\ picker.cls = "FilePicker"
   /\ picker.allowed_extensions # None /\ picker.result # None)
    => /\ picker.result[1] \in Files
       /\ \E i \in 1..Len(INPUT_EXT) : INPUT_EXT[i] = extension(name(picker.result[1]))

\* C10, as stated: with upper_limit set, the dialog's current path is the
\* stopping directory or lies below it, from every starting directory and
\* after every sequence of double-clicks, and the '..' row is offered only
\* while the path is strictly below the stopping directory.
C10_StaysWithinLimit ==
  (picker # Idle /\ picker.upper_limit # None)
    => /\ is_within(picker.path, picker.upper_limit[1])
       /\ (picker.rowData # <<>> /\ picker.rowData[1].name = <<".", ".">>)
            => picker.path # picker.upper_limit[1]

\* the node is the tree of the object: a dataset is a leaf, a group carries
\* the list of its members' nodes, in their order and under their names
RECURSIVE is_tree_of(_, _)
is_tree_of(node, obj) ==
  IF obj.kind = "dataset" THEN node.children = None
  ELSE /\ obj.kind = "group"
       /\ node.children # None
       /\ Len(node.children[1]) = Len(obj.members)
       /\ \A i \in 1..Len(obj.members) :
            /\ node.children[1][i].id = obj.members[i].name
            /\ is_tree_of(node.children[1][i], obj.members[i].obj)

\* the file is HDF and holds groups and datasets only
RECURSIVE only_groups_and_datasets(_)
only_groups_and_datasets(obj) ==
  /\ obj.kind \in {"group", "dataset"}
  /\ \A i \in 1..Len(obj.members) : only_groups_and_datasets(obj.members[i].obj)

\* C11: hdf_tree_to_dict never raises; for a file it can read it returns a
\* list of one node, the root, with the file's base name as id and '/' as
\* label, every dataset a leaf and every group with its 'children'; on a
\* failure it returns the exception.  pick_file adds a tree card exactly for a
\* list, and for a failure adds none and notifies 'Input must be hdf, nxs, or
\* h5 format!'.
C11_TreeOrException ==
  [][ (op'.name = "pick_file" /\ op'.result # None) =>
        LET hdf_file == op'.result[1]
            hdf_dic == hdf_tree_to_dict(hdf_file)
            content == Disk[hdf_file].content
        IN  /\ hdf_dic.how = "return"
            /\ IF content # None /\ only_groups_and_datasets(content[1])
               THEN /\ hdf_dic.isinstance = "list"
                    /\ Len(hdf_dic.value) = 1
                    /\ hdf_dic.value[1].id = hdf_file
                    /\ hdf_dic.value[1].label = "/"
                    /\ is_tree_of(hdf_dic.value[1], content[1])
                    /\ trees' = Append(trees, Card(hdf_file))
                    /\ ui'.notify = ""
               ELSE /\ hdf_dic.isinstance = "Exception"
                    /\ trees' = trees
                    /\ ui'.notify = "Input must be hdf, nxs, or h5 format!" ]_vars

\* C11's case: pick_file was given an HDF file that holds a named datatype,
\* added no card and notified.
C11_Witness ==
  /\ op.name = "pick_file" /\ op.result = Some("odd.h5")
  /\ trees = <<>> /\ ui.notify = "Input must be hdf, nxs, or h5 format!"

\* C12, as stated: for a boolean dataset of any shape get_hdf_data does not
\* raise and returns 'boolean' with the value as an int, and show_data shows
\* it as scalar text: the value's text in the value display, the figure
\* cleared, the file and the key kept and no error notified.
C12_BooleanOfAnyShape ==
  [][ (/\ op'.name = "show_data" /\ has_news(ui)
       /\ about_to_show(ui).kind = "b")
        => LET got == get_hdf_data(TRUE, about_to_show(ui))
           IN  /\ got.exc = ""
               /\ got.data_type = "boolean" /\ got.value.vk = "int"
               /\ ui'.hdf_value_display = str(got.value)
               /\ ui'.figure = Cleared
               /\ ui'.hdf_key_display = ui.hdf_key_display
               /\ ui'.file_path_display = ui.file_path_display
               /\ ui'.notify = "" ]_vars

\* the size of the dataset along an axis
size_along(item, axis) == item.shape[axis + 1]

\* show_data is about to run display_3d_data on a numeric 3D dataset
runs_display_3d_data(st) ==
  /\ has_news(st)
  /\ about_to_show(st).kind \in {"i", "f", "u"}
  /\ rank(about_to_show(st)) = 3

\* C13, as stated: after every run of display_3d_data the slice slider's
\* maximum is the size of the dataset along the selected axis, less one, the
\* slider's position lies in 0..maximum, and a slice taken in the run is taken
\* at an index within the dataset along the slice's axis; also after the
\* fallback from axis 2 to axis 0.
C13_SliderFollowsAxis ==
  [][ (op'.name = "show_data" /\ runs_display_3d_data(ui))
        => LET item == about_to_show(ui)
           IN  /\ ui'.main_slider_max = size_along(item, ui'.axis_list) - 1
               /\ ui'.main_slider \in 0..ui'.main_slider_max
               /\ (ui'.image # None /\ ui'.image # ui.image)
                    => ui'.image[1].pos \in 0..(size_along(item, ui'.image[1].axis) - 1)
     ]_vars

\* a pixel rescaled to 0..255 between the slice's least and greatest value
rescaled(x, nmin, nmax) == (255 * (x - nmin)) \div (nmax - nmin)

\* C14, as stated: with the contrast adjusted (min slider > 0 or max slider
\* < 255) the min value is max - 1 clipped to 0..254 whenever min >= max, and
\* is written back to the min slider, and is then strictly below max; every
\* pixel of a non-constant slice is rendered as its value rescaled to 0..255
\* and clipped into [min, max], a constant slice as zeros; with min = 0 and
\* max = 255 the slice is rendered unchanged.
C14_RescaledAndClipped ==
  probe.stage = "drawn" =>
    LET image == probe.image
        nmin == np_min(image)
        nmax == np_max(image)
        max_val == probe.max_slider
        min_val == IF probe.min_slider >= max_val
                   THEN clip(max_val - 1, 0, 254) ELSE probe.min_slider
    IN  IF probe.min_slider > 0 \/ probe.max_slider < 255
        THEN /\ probe.result.min_slider = min_val /\ min_val < max_val
             /\ \A i \in 1..Len(image) :
                  probe.result.pixels[i] =
                    IF nmax = nmin THEN 0
                    ELSE clip(rescaled(image[i], nmin, nmax), min_val, max_val)
        ELSE probe.result = [min_slider |-> probe.min_slider, pixels |-> image]

\* C15: in plot mode display_1d_2d_data draws exactly one figure, chosen by
\* the shape: a 1D array against its index; a 2D array of exactly 2 rows as
\* row 0 against row 1 (a 2x2 array too); otherwise a 2D array of exactly 2
\* columns as column 0 against column 1; every other 2D array as an image.
C15_PlotByShape ==
  (probe.stage = "displayed" /\ probe.disp_type = "plot") =>
    LET shape == probe.shape
        data == Data("f1.h5", "d")
        line(how) == Plotted(how, data, probe.result.marker_list)
    IN  /\ probe.result.main_plot_visible /\ ~probe.result.main_table_visible
        /\ probe.result.figure =
             IF Len(shape) = 1 THEN line("index")
             ELSE IF shape[1] = 2 THEN line("rows")
             ELSE IF shape[2] = 2 THEN line("columns")
             ELSE Shown2d(data, probe.result.cmap_list)

C15_Witness ==
  /\ probe.stage = "displayed" /\ probe.disp_type = "plot"
  /\ probe.shape = <<2, 2>>
  /\ probe.result.figure.kind = "plot:rows"

============================================================================
